---- MODULE Spec2Model ----
(***************************************************************************)
(* Model of cerbero/bootstrap/ohos.py: the OpenHarmony SDK bootstrapper.   *)
(* The state is the file system under the installation prefix plus the    *)
(* position of start() in its loop over the wanted archives.              *)
(*                                                                         *)
(* File names are sequences of atoms: words ("native", "zip") and the     *)
(* separator characters ".", "-" and "_" , so that str.split, str.lower   *)
(* and the suffix tests are computed on the name and not assumed.         *)
(***************************************************************************)
EXTENDS Integers, Sequences, FiniteSets, TLC

\* ------------------------------------------------------------------ bounds
\* Largest number of files staged under the platform directory.
MaxFiles == 2
\* Number of invocations of start() that are followed.
MaxRuns == 2

\* --------------------------------------------------------------- constants
SDK_VERSION == "6.0"
WANTED_COMPONENTS == {"native", "toolchains", "ets", "js", "previewer"}
\* The name of the staging directory under the prefix (line 120).
StagingName == "ohos-sdk"
\* Python's None, as returned by _read_api_version.
None == "<None>"
\* A metadata file that is not there / is not JSON / has no apiVersion.
Absent == "<absent>"
Bad == "<bad>"
NoField == "<nofield>"

\* ------------------------------------------------------- the input universe
FileNames ==
    { <<"native", ".", "zip">>,
      <<"native", "-", "pkg", ".", "tar", ".", "gz">>,
      <<"toolchains", ".", "zip">>,
      <<"js", "_", "sdk", ".", "tgz">>,
      <<"toolchains", ".", "rar">>,
      <<"random", "-", "extra", ".", "zip">>,
      <<"ets", ".", "ZIP">> }

\* Names whose archive content is varied; the others carry one plain content.
VariedNames ==
    { <<"native", ".", "zip">>,
      <<"toolchains", ".", "zip">> }

\* What oh-uni-package.json at the root of the component directory holds.
RootVals == {Absent, Bad, NoField, "12", StagingName, ""}
\* <component>/<subdir i>/oh-uni-package.json holds Absent or a version; the
\* subdirectories are numbered in lexicographic order of their names.
SubDirs == {1, 2}
NoSubs == [i \in SubDirs |-> Absent]
\* The contents of the subdirectories that are staged.
SubLayouts == { NoSubs, <<"12", "13">>, <<"13", "12">>, <<Absent, "13">> }

\* An archive file: its name, the top-level directory its entries live in,
\* the metadata files inside that directory, and whether extraction raises.
PlainFile(n) ==
    [name |-> n, top |-> n[1], root |-> "12", subs |-> NoSubs, corrupt |-> FALSE]

FilesNamed(n) ==
    IF n \in VariedNames
    THEN { [name |-> n, top |-> n[1], root |-> r, subs |-> s, corrupt |-> FALSE] :
              r \in RootVals \ {Absent}, s \in {NoSubs} }
         \cup
         { [name |-> n, top |-> n[1], root |-> Absent, subs |-> s, corrupt |-> FALSE] :
              s \in SubLayouts }
         \cup
         { [PlainFile(n) EXCEPT !.corrupt = TRUE],
           [PlainFile(n) EXCEPT !.top = "other"] }
    ELSE { PlainFile(n) }

RECURSIVE InputsOver(_)
InputsOver(N) ==
    IF N = {} THEN { {} }
    ELSE LET n == CHOOSE x \in N : TRUE
         IN  { S \cup {f} : S \in InputsOver(N \ {n}), f \in FilesNamed(n) }

\* Every staging input: at most MaxFiles files with distinct names.
AllInputs ==
    UNION { InputsOver(N) : N \in { M \in SUBSET FileNames : Cardinality(M) <= MaxFiles } }

\* A directory <platform-dir>/<d>: the archives extracted into it, in order,
\* and the metadata files it now holds. NoDir stands for a directory that
\* does not exist; work holds the directories that do.
NoDir == [exists |-> FALSE, tags |-> <<>>, root |-> Absent, subs |-> NoSubs]
NoWork == {}
DirAt(w, d) ==
    IF \E x \in w : x.dir = d
    THEN LET x == CHOOSE y \in w : y.dir = d
         IN  [exists |-> TRUE, tags |-> x.tags, root |-> x.root, subs |-> x.subs]
    ELSE NoDir

\* --------------------------------------------------------------- 4.2 names
\* The index of the first element of s that is in seps, Len(s)+1 if none.
RECURSIVE FirstIndex(_, _, _)
FirstIndex(s, seps, i) ==
    IF i > Len(s) THEN Len(s) + 1
    ELSE IF s[i] \in seps THEN i
    ELSE FirstIndex(s, seps, i + 1)

\* str.split(sep)[0]
SplitHead(s, sep) == SubSeq(s, 1, FirstIndex(s, {sep}, 1) - 1)

\* The string a sequence of atoms spells; names alternate words and
\* separators, so a separator-free piece is one word or empty.
Spell(s) == IF s = <<>> THEN "" ELSE s[1]

\* _comp_of, lines 129-133: base.split(".")[0].split("-")[0].split("_")[0].
_comp_of(name) == Spell(SplitHead(SplitHead(SplitHead(name, "."), "-"), "_"))

\* str.lower on one atom and on a name.
LowerAtom(a) == IF a = "ZIP" THEN "zip" ELSE a
Lower(name) == [i \in DOMAIN name |-> LowerAtom(name[i])]

\* EndsWith with the bug of testing only that the name has an extension.
EndsWith_AnyExtension(name, suffix) ==
    /\ Len(name) >= 2
    /\ name[Len(name) - 1] = suffix[1]

\* str.endswith, and the tail test of a glob pattern "*<suffix>".
EndsWith(name, suffix) ==
    /\ Len(name) >= Len(suffix)
    /\ SubSeq(name, Len(name) - Len(suffix) + 1, Len(name)) = suffix

SufZip == <<".", "zip">>
SufTarGz == <<".", "tar", ".", "gz">>
SufTgz == <<".", "tgz">>

\* -------------------------------------------------------- 4.1 the locator
\* All orders in which a directory listing may report the names in S.
Listings(S) ==
    { s \in [1..Cardinality(S) -> S] : \A i, j \in DOMAIN s : s[i] = s[j] => i = j }

\* _find_archives_recursively, lines 88-94: one glob per pattern, the
\* patterns in order, each glob in the order the listing reports.
_find_archives_recursively(listing) ==
    SelectSeq(listing, LAMBDA n : EndsWith(n, SufZip))
    \o SelectSeq(listing, LAMBDA n : EndsWith(n, SufTarGz))
    \o SelectSeq(listing, LAMBDA n : EndsWith(n, SufTgz))

\* WantedArchives with the bug of not filtering.
WantedArchives_Unfiltered(found) == found

\* The filter of line 136.
WantedArchives(found) ==
    SelectSeq(found, LAMBDA a : _comp_of(a) \in WANTED_COMPONENTS)

\* ------------------------------------------------------ 4.3 the extractor
\* _extract_archive with the bug of swallowing the extraction error and
\* returning False.
_extract_archive_Swallowed(f, present) ==
    LET low == Lower(f.name)
    IN  IF EndsWith(low, <<".", "zip">>) \/ EndsWith(low, <<".", "tar", ".", "gz">>)
           \/ EndsWith(low, <<".", "tgz">>)
        THEN IF f.corrupt \/ ~present THEN "unknown" ELSE "ok"
        ELSE "unknown"

\* _extract_archive, lines 57-69: "raise" when the container is corrupt,
\* "ok" (True) after extractall, "unknown" (False) for any other suffix.
_extract_archive(f, present) ==
    LET low == Lower(f.name)
    IN  IF EndsWith(low, SufZip) \/ EndsWith(low, SufTarGz) \/ EndsWith(low, SufTgz)
        THEN IF f.corrupt \/ ~present THEN "raise" ELSE "ok"
        ELSE "unknown"

\* extractall into the platform directory: entries land in <platform>/<top>,
\* overwriting files of the same path and keeping the others.
ExtractInto(w, f, r) ==
    LET d == DirAt(w, f.top)
    IN  { x \in w : x.dir # f.top }
        \cup
        { [dir  |-> f.top,
           tags |-> Append(d.tags, <<f.name, r>>),
           root |-> IF f.root # Absent THEN f.root ELSE d.root,
           subs |-> [i \in SubDirs |->
                        IF f.subs[i] # Absent THEN f.subs[i] ELSE d.subs[i]]] }

\* -------------------------------------------------- 4.4 the metadata reader
\* _read_api_version, lines 71-86. sublisting is the order in which glob
\* reports the subdirectories of the component root.
_read_api_version(d, sublisting) ==
    LET candidates == SelectSeq(sublisting, LAMBDA i : d.subs[i] # Absent)
        pkg == IF d.root # Absent THEN d.root
               ELSE IF candidates = <<>> THEN Absent
               ELSE d.subs[candidates[1]]
    IN  IF pkg \in {Absent, Bad, NoField} THEN None ELSE pkg

\* OrUnknown with the bug of str() applied to None: no fallback.
OrUnknown_StrOfNone(v) == IF v = "" THEN "unknown" ELSE v

\* `_read_api_version(source_dir) or "unknown"`, line 147.
OrUnknown(v) == IF v = None \/ v = "" THEN "unknown" ELSE v

SubListings == Listings(SubDirs)

\* ------------------------------------------------------------- the state
VARIABLES
    pc,        \* where start() is: "idle", "loop", "done" (returned), "error" (raised)
    run,       \* the number of this invocation of start()
    input,     \* the archive files the staged SDK bundle holds
    marker,    \* the content of <prefix>/.ohos-sdk-version, Absent if none
    staging,   \* whether <prefix>/ohos-sdk exists
    files,     \* the names of the files under the platform directory
    work,      \* the directories under the platform directory
    vdirs,     \* the names of the other directories under the prefix
    tree,      \* the component trees under them: [ver, comp, tags]
    queue,     \* the wanted archives start() has still to process
    log,       \* what start() printed in this run, one record per archive
    found,     \* whether this run found the staging directory (line 122)
    pristine,  \* whether this run began on a freshly staged bundle
    hist       \* how the previous run began and ended

vars == <<pc, run, input, marker, staging, files, work, vdirs, tree, queue,
          log, found, pristine, hist>>

NoHist == [ended |-> "none", pristine |-> FALSE, layout |-> {}]

\* The file system under the prefix, as one value.
FS == [staging |-> staging, files |-> files, work |-> work,
       vdirs |-> vdirs, tree |-> tree]

\* os.path.exists(<prefix>/<ver>)
Exists(fs, ver) == IF ver = StagingName THEN fs.staging ELSE ver \in fs.vdirs

\* shutil.rmtree(<prefix>/<ver>)
RmTree(fs, ver) ==
    IF ver = StagingName
    THEN [fs EXCEPT !.staging = FALSE, !.files = {}, !.work = NoWork,
                    !.tree = {e \in @ : e.ver # ver}]
    ELSE [fs EXCEPT !.vdirs = @ \ {ver}, !.tree = {e \in @ : e.ver # ver}]

\* os.makedirs(<prefix>/<ver>) of a directory that is not there
MakeDirs(fs, ver) ==
    IF ver = StagingName
    THEN [fs EXCEPT !.staging = TRUE]
    ELSE [fs EXCEPT !.vdirs = @ \cup {ver}]

\* PrepareTarget with the bug of keeping an existing target directory.
PrepareTarget_Merged(fs, ver) ==
    IF Exists(fs, ver) THEN fs ELSE MakeDirs(fs, ver)

\* Lines 150-153: remove the target directory if it exists, then create it.
PrepareTarget(fs, ver) ==
    MakeDirs(IF Exists(fs, ver) THEN RmTree(fs, ver) ELSE fs, ver)

\* shutil.move(source_dir, target_dir), line 155, succeeds when the source
\* exists and <target>/<comp> does not.
MoveOk(fs, comp, ver) ==
    /\ DirAt(fs.work, comp).exists
    /\ ~ \E e \in fs.tree : e.ver = ver /\ e.comp = comp

Move(fs, comp, ver) ==
    [fs EXCEPT !.tree = @ \cup {[ver |-> ver, comp |-> comp,
                                  tags |-> DirAt(fs.work, comp).tags]},
               !.work = { x \in @ : x.dir # comp }]

\* One iteration of the loop of start(), lines 138-155, on archive f.
LoopBody(fs, f, r, sublisting, partial) ==
    LET comp == _comp_of(f.name)
        res == _extract_archive(f, f.name \in fs.files)
        line == [name |-> f.name, comp |-> comp, ver |-> "", existed |-> FALSE]
    IN  IF res = "unknown"
        THEN [fs |-> fs, line |-> [line EXCEPT !.ver = ""], outcome |-> "skipped"]
        ELSE IF res = "raise"
        THEN [fs |-> IF partial /\ f.name \in fs.files
                     THEN [fs EXCEPT !.work = ExtractInto(fs.work, f, r)]
                     ELSE fs,
              line |-> line, outcome |-> "extractfail"]
        ELSE LET fs1 == [fs EXCEPT !.work = ExtractInto(fs.work, f, r)]
                 ver == OrUnknown(_read_api_version(DirAt(fs1.work, comp), sublisting))
                 fs2 == PrepareTarget(fs1, ver)
                 ln  == [line EXCEPT !.ver = ver, !.existed = Exists(fs1, ver)]
             IN  IF MoveOk(fs2, comp, ver)
                 THEN [fs |-> Move(fs2, comp, ver), line |-> ln, outcome |-> "moved"]
                 ELSE [fs |-> fs2, line |-> ln, outcome |-> "movefail"]

\* The <prefix>/<version>/<component> layout: which directories exist and
\* which archive each component tree came from.
Layout ==
    { <<v>> : v \in vdirs }
    \cup { <<e.ver, e.comp, [i \in DOMAIN e.tags |-> e.tags[i][1]]>> : e \in tree }

FileOf(name) == CHOOSE f \in input : f.name = name

\* ------------------------------------------------------------ the actions
Init ==
    /\ input \in AllInputs
    /\ pc = "idle"
    /\ run = 1
    /\ marker = Absent
    /\ staging = TRUE
    /\ files = { f.name : f \in input }
    /\ work = NoWork
    /\ vdirs = {}
    /\ tree = {}
    /\ queue = <<>>
    /\ log = <<>>
    /\ found = FALSE
    /\ pristine = TRUE
    /\ hist = NoHist

\* Lines 110-136: the prefix, the version marker, the test for the staging
\* directory, discovery and filtering. The prefix exists (the bundle is
\* staged under it) and the marker is written; of the I/O errors only a
\* corrupt archive is followed.
Start ==
    /\ pc = "idle"
    /\ \E listing \in Listings(files) :
          /\ marker' = SDK_VERSION
          /\ found' = staging
          /\ IF staging
             THEN /\ pc' = "loop"
                  /\ queue' = WantedArchives(_find_archives_recursively(listing))
             ELSE /\ pc' = "done"
                  /\ queue' = <<>>
    /\ log' = <<>>
    /\ UNCHANGED <<run, input, staging, files, work, vdirs, tree, pristine, hist>>

\* Lines 138-155: one archive.
ProcessArchive ==
    /\ pc = "loop"
    /\ queue # <<>>
    /\ \E sublisting \in SubListings, partial \in BOOLEAN :
          LET out == LoopBody(FS, FileOf(Head(queue)), run, sublisting, partial)
          IN  /\ staging' = out.fs.staging
              /\ files' = out.fs.files
              /\ work' = out.fs.work
              /\ vdirs' = out.fs.vdirs
              /\ tree' = out.fs.tree
              /\ log' = Append(log, [name |-> out.line.name, comp |-> out.line.comp,
                                      ver |-> out.line.ver, existed |-> out.line.existed,
                                      outcome |-> out.outcome])
              /\ IF out.outcome \in {"extractfail", "movefail"}
                 THEN pc' = "error" /\ queue' = queue
                 ELSE pc' = "loop" /\ queue' = Tail(queue)
    /\ UNCHANGED <<run, input, marker, found, pristine, hist>>

\* Line 157, after the loop: shutil.rmtree(sdk_dir, ignore_errors=True).
Cleanup ==
    /\ pc = "loop"
    /\ queue = <<>>
    /\ LET fs == RmTree(FS, StagingName)
       IN  /\ staging' = fs.staging
           /\ files' = fs.files
           /\ work' = fs.work
           /\ vdirs' = fs.vdirs
           /\ tree' = fs.tree
    /\ pc' = "done"
    /\ UNCHANGED <<run, input, marker, queue, log, found, pristine, hist>>

\* The bootstrap is run again. Line 107 registers the extraction of the SDK
\* bundle into <prefix>/ohos-sdk, which the framework does before start();
\* when the bundle is already unpacked (restage = FALSE) start() runs on
\* what the previous run left.
NextRun ==
    /\ pc \in {"done", "error"}
    /\ run < MaxRuns
    /\ \E restage \in BOOLEAN :
          /\ pristine' = restage
          /\ IF restage
             THEN /\ staging' = TRUE
                  /\ files' = { f.name : f \in input }
                  /\ work' = NoWork
                  /\ tree' = {e \in tree : e.ver # StagingName}
             ELSE UNCHANGED <<staging, files, work, tree>>
    /\ hist' = [ended |-> pc, pristine |-> pristine, layout |-> Layout]
    /\ run' = run + 1
    /\ pc' = "idle"
    /\ queue' = <<>>
    /\ log' = <<>>
    /\ found' = FALSE
    /\ UNCHANGED <<input, marker, vdirs>>

Next == Start \/ ProcessArchive \/ Cleanup \/ NextRun

Spec == Init /\ [][Next]_vars

\* ------------------------------------------------------------- the claims
\* The record start() logged for the archive it processed last.
Last == log[Len(log)]

\* The classification the specification gives, read off the name directly:
\* the names of the universe begin with their token.
Whitelist == {"native", "toolchains", "ets", "js", "previewer"}
TokenOfName(n) == n[1]
SuffixWord(n) == n[Len(n)]

\* The tags of every tree under the prefix and under the platform directory.
TagsUnderPrefix == UNION { { e.tags[k] : k \in DOMAIN e.tags } : e \in tree }
TagsInWork == UNION { { x.tags[k] : k \in DOMAIN x.tags } : x \in work }

\* C1: a component relocated during a run is still present at
\* <prefix>/<ApiVersion>/<ComponentToken> when the run completes: relocating
\* another component does not remove it.
C1_OtherComponentsKept ==
    pc = "done" =>
        \A i \in DOMAIN log :
            log[i].outcome = "moved" =>
                \E e \in tree : e.ver = log[i].ver /\ e.comp = log[i].comp

\* The tags of the trees in a set of entries.
TagsOf(entries) == UNION { { e.tags[k] : k \in DOMAIN e.tags } : e \in entries }

C3_Idempotent ==
    (pc = "done" /\ pristine /\ hist.pristine /\ hist.ended = "done") =>
        Layout = hist.layout

\* C4: whenever a run that found the staging directory has ended, whether
\* it returned or raised, the staging directory no longer exists.
C4_StagingRemoved ==
    (pc \in {"done", "error"} /\ found) => ~staging

\* The component working directory has no readable apiVersion: no metadata
\* file at its root nor one level below, or a root file that is not JSON or
\* lacks the field.
NoVersionIn(d) ==
    \/ d.root \in {Bad, NoField}
    \/ d.root = Absent /\ \A i \in SubDirs : d.subs[i] = Absent

\* C5: metadata fallback. For an extracted archive whose working directory
\* has no readable apiVersion, the version resolved is exactly "unknown" and
\* the move puts the component at <prefix>/unknown/<component>.
C5_MetadataFallback ==
    [][ (pc = "loop" /\ queue # <<>> /\ Len(log') = Len(log) + 1) =>
          LET f == FileOf(Head(queue))
              d == DirAt(ExtractInto(work, f, run), TokenOfName(f.name))
              l == log'[Len(log')]
          IN  (l.outcome \in {"moved", "movefail"} /\ NoVersionIn(d)) =>
                  /\ l.ver = "unknown"
                  /\ (d.exists /\ l.outcome = "moved") =>
                         [ver |-> "unknown", comp |-> TokenOfName(f.name), tags |-> d.tags]
                             \in tree'
                  /\ d.exists => l.outcome = "moved"
      ]_vars

C5_Witness ==
    /\ log # <<>>
    /\ Last.outcome = "moved"
    /\ Last.ver = "unknown"
    /\ FileOf(Last.name).root = Absent
    /\ FileOf(Last.name).subs = NoSubs
    /\ \E e \in tree : e.ver = "unknown" /\ e.comp = Last.comp
                       /\ e.tags = << <<Last.name, run>> >>

\* The version the specification's search order gives for the metadata of
\* archive f: the root file, else the lexicographically first subdirectory
\* that has one.
LexFirstVersion(f) ==
    LET having == { i \in SubDirs : f.subs[i] # Absent }
        pkg == IF f.root # Absent THEN f.root
               ELSE IF having = {} THEN Absent
               ELSE f.subs[CHOOSE i \in having : \A j \in having : i <= j]
    IN  IF pkg \in {Absent, Bad, NoField, ""} THEN "unknown" ELSE pkg

\* C6: the metadata search is deterministic: the version resolved for an
\* archive is the one of the root file, else of the lexicographically first
\* subdirectory holding a metadata file, whatever the listing order.
C6_LexFirst ==
    \A i \in DOMAIN log :
        (log[i].outcome = "moved" /\ FileOf(log[i].name).top = log[i].comp) =>
            log[i].ver = LexFirstVersion(FileOf(log[i].name))

\* C7: filtering. A file whose token is outside the whitelist is never given
\* to the extractor, and nothing of it is under the prefix or in the
\* platform directory.
C7_Filtering ==
    \A n \in files \cup { f.name : f \in input } :
        TokenOfName(n) \notin Whitelist =>
            /\ \A i \in DOMAIN log : log[i].name # n
            /\ \A t \in TagsUnderPrefix \cup TagsInWork : t[1] # n

C7_Witness ==
    /\ pc = "done"
    /\ found
    /\ \E f \in input : TokenOfName(f.name) \notin Whitelist
    /\ \E e \in tree : e.tags[1][2] = run

\* C8: an archive with a wanted token and an unsupported suffix is skipped:
\* it never fails the run, no target directory is prepared for it, nothing
\* of it is under the prefix, and the run still processes every wanted
\* archive of a supported suffix.
C8_UnknownFormatSkipped ==
    \A n \in { f.name : f \in input } :
        (TokenOfName(n) \in Whitelist /\ SuffixWord(n) \notin {"zip", "ZIP", "gz", "tgz"}) =>
            /\ \A i \in DOMAIN log :
                   log[i].name = n => (log[i].outcome = "skipped" /\ log[i].ver = "")
            /\ \A t \in TagsUnderPrefix \cup TagsInWork : t[1] # n
            /\ (pc = "done" /\ found /\ pristine) =>
                   \A m \in { f.name : f \in input } :
                       (TokenOfName(m) \in Whitelist /\ SuffixWord(m) \in {"zip", "gz", "tgz"})
                           => \E i \in DOMAIN log : log[i].name = m

C8_Witness ==
    /\ pc = "done"
    /\ found
    /\ pristine
    /\ <<"toolchains", ".", "rar">> \in { f.name : f \in input }
    /\ log # <<>>
    /\ Last.outcome = "moved"

\* C9: a failed extraction of a recognized archive is fatal: the run is in
\* error at that archive, no version is resolved and nothing of the archive
\* is under the prefix, and no later archive is processed.
C9_ExtractionFailureFatal ==
    \A i \in DOMAIN log :
        (FileOf(log[i].name).corrupt /\ SuffixWord(log[i].name) \in {"zip", "gz", "tgz"}) =>
            /\ i = Len(log)
            /\ pc = "error"
            /\ log[i].outcome = "extractfail"
            /\ log[i].ver = ""
            /\ queue # <<>> /\ Head(queue) = log[i].name
            /\ \A t \in TagsUnderPrefix : t # <<log[i].name, run>>

C9_Witness ==
    /\ pc = "error"
    /\ log # <<>>
    /\ Last.outcome = "extractfail"
    /\ Len(queue) >= 2

\* C10: whenever the pipeline removes an existing target directory for an
\* archive, that directory is not the staging tree and the component is
\* then moved into the re-created target.
C10_DeleteThenMove ==
    \A i \in DOMAIN log :
        log[i].existed => (log[i].outcome = "moved" /\ log[i].ver # StagingName)

====
